---- MODULE Spec2Model ----
(***************************************************************************)
(* catalog-validator: validate(file, sheet) of src/index.js.               *)
(*                                                                         *)
(* A text is a sequence of one-character strings.  A value of a record is  *)
(* tagged: "undef" (JavaScript undefined), "str" (a string) or "arr" (an   *)
(* array of strings).                                                      *)
(***************************************************************************)
EXTENDS Integers, Sequences, FiniteSets, TLC

\* ------------------------------------------------------------------ text

QUOTE == "\""
COMMA == ","
NL == "\n"
SPACE == " "
SEMI == ";"

\* The white space String.prototype.trim removes, within the model's alphabet.
WhiteSpace == {SPACE, NL}

\* The separator of a multi-valued field, '; '.
SEP == <<SEMI, SPACE>>

\* The one element of a singleton: The({F(v) : v \in {e}}) is F(e), with e
\* evaluated once.
The(S) == CHOOSE x \in S : TRUE

\* s.slice(from - 1) of JavaScript, for a 1-based from.
From(s, from) == SubSeq(s, from, Len(s))

\* s.startsWith(t) at the 1-based position p.
HasAt(s, p, t) ==
  /\ p + Len(t) - 1 <= Len(s)
  /\ \A k \in 1..Len(t) : s[p + k - 1] = t[k]

\* String.prototype.includes: t occurs in s.
Includes(s, t) == \E p \in 1..(Len(s) + 1) : HasAt(s, p, t)

RECURSIVE TrimStart(_)
TrimStart(s) ==
  IF s # <<>> /\ Head(s) \in WhiteSpace THEN TrimStart(Tail(s)) ELSE s

RECURSIVE TrimEnd(_)
TrimEnd(s) ==
  IF s # <<>> /\ s[Len(s)] \in WhiteSpace
    THEN TrimEnd(SubSeq(s, 1, Len(s) - 1))
    ELSE s

\* String.prototype.trim.
Trim(s) == TrimEnd(TrimStart(s))

\* String.prototype.split(sep): the pieces of s between the occurrences of
\* sep, found left to right without overlap.
RECURSIVE SplitFrom(_, _, _, _)
SplitFrom(s, sep, start, p) ==
  IF p + Len(sep) - 1 > Len(s)
    THEN <<SubSeq(s, start, Len(s))>>
    ELSE IF HasAt(s, p, sep)
      THEN <<SubSeq(s, start, p - 1)>>
             \o SplitFrom(s, sep, p + Len(sep), p + Len(sep))
      ELSE SplitFrom(s, sep, start, p + 1)

Split(s, sep) == SplitFrom(s, sep, 1, 1)

\* Array.prototype.join.
RECURSIVE Join(_, _)
Join(a, sep) ==
  IF a = <<>> THEN <<>>
  ELSE IF Len(a) = 1 THEN a[1]
  ELSE a[1] \o sep \o Join(Tail(a), sep)

\* value.replace(/""/g, '"'): every pair of quotes, left to right, becomes one.
RECURSIVE UnescapeQuotes(_)
UnescapeQuotes(s) ==
  IF s = <<>> THEN <<>>
  ELSE IF HasAt(s, 1, <<QUOTE, QUOTE>>)
    THEN <<QUOTE>> \o UnescapeQuotes(From(s, 3))
    ELSE <<Head(s)>> \o UnescapeQuotes(Tail(s))

\* value.slice(1, -1).
Slice1(s) == SubSeq(s, 2, Len(s) - 1)

\* ------------------------------------------------------------- tokenizer

IsDelimiter(s, p) == p <= Len(s) /\ s[p] \in {COMMA, NL}

\* (,|\n|$) at p: the position after it, or 0 when it does not match.
DelimiterEnd(s, p) ==
  IF IsDelimiter(s, p) THEN p + 1
  ELSE IF p = Len(s) + 1 THEN p
  ELSE 0

\* "([^"]|"")*?"(,|\n|$) with the opening quote already taken and the lazy
\* repetition standing at q: first the closing quote and the delimiter are
\* tried, then one more [^"] or "".  0 when the alternative does not match.
RECURSIVE QuotedEnd(_, _)
QuotedEnd(s, q) ==
  IF q > Len(s) THEN 0
  ELSE IF s[q] = QUOTE /\ DelimiterEnd(s, q + 1) # 0
    THEN DelimiterEnd(s, q + 1)
  ELSE IF s[q] # QUOTE THEN QuotedEnd(s, q + 1)
  ELSE IF HasAt(s, q, <<QUOTE, QUOTE>>) THEN QuotedEnd(s, q + 2)
  ELSE 0

\* [^,\n]*(,|\n|$) at p: the greedy run always ends before a delimiter or at
\* the end of the text.
RECURSIVE UnquotedEnd(_, _)
UnquotedEnd(s, p) ==
  IF p > Len(s) \/ IsDelimiter(s, p)
    THEN DelimiterEnd(s, p)
    ELSE UnquotedEnd(s, p + 1)

\* One match of /("([^"]|"")*?"|[^,\n]*)(,|\n|$)/ at p: the position after it.
MatchEnd(s, p) ==
  IF p <= Len(s) /\ s[p] = QUOTE /\ QuotedEnd(s, p + 1) # 0
    THEN QuotedEnd(s, p + 1)
    ELSE UnquotedEnd(s, p)

\* String.prototype.match with the g flag finds every match from left to
\* right, each starting where the one before it ended; after an empty match,
\* which only happens at the end of the text, the search is over.
\* MatchRow: the matches from p up to the first that ends in a newline.
RECURSIVE MatchRow(_, _)
MatchRow(s, p) ==
  The({ <<SubSeq(s, p, e - 1)>>
          \o (IF e = p \/ s[e - 1] = NL THEN <<>> ELSE MatchRow(s, e))
        : e \in {MatchEnd(s, p)} })

\* The matches from p to the end of the text, MatchRow by MatchRow.
RECURSIVE MatchAll(_, _)
MatchAll(s, p) ==
  IF p > Len(s) + 1 THEN <<>>
  ELSE The({ row \o MatchAll(s, IF row[Len(row)] = <<>> THEN Len(s) + 2
                                ELSE p + Len(Join(row, <<>>)))
             : row \in {MatchRow(s, p)} })

\* .slice(0, -1)
DropLast(a) == SubSeq(a, 1, Len(a) - 1)

EndsWithNL(value) == value # <<>> /\ value[Len(value)] = NL

\* value.replace(/[,\n]$/, '')
StripDelimiter(value) ==
  IF value # <<>> /\ value[Len(value)] \in {COMMA, NL}
    THEN DropLast(value)
    ELSE value

\* The field pushed for a token: a token that starts with a quote has its
\* quote pairs collapsed and then its first and last characters removed.
FieldOf(value) ==
  LET v == StripDelimiter(value)
  IN  IF v # <<>> /\ Head(v) = QUOTE THEN Slice1(UnescapeQuotes(v)) ELSE v

\* The reduce of parseFile, from [[]]: a field goes to the row that was last
\* before its token was looked at, and a token ending in a newline opens the
\* next row.  So there is one row more than tokens ending in a newline, and
\* row r holds the tokens after the (r-1)th such token up to the r-th.
ReduceRows(tokens) ==
  LET n == Len(tokens)
      breaks == {k \in 1..n : EndsWithNL(tokens[k])}
      break(r) == CHOOSE k \in breaks : Cardinality({j \in breaks : j < k}) = r - 1
      first(r) == IF r = 1 THEN 1 ELSE break(r - 1) + 1
      last(r) == IF r <= Cardinality(breaks) THEN break(r) ELSE n
  IN  [r \in 1..(Cardinality(breaks) + 1) |->
         [j \in 1..(last(r) - first(r) + 1) |-> FieldOf(tokens[first(r) + j - 1])]]

\* The rows of the text before the header is dropped.
AllRows(file) == ReduceRows(DropLast(MatchAll(Trim(file), 1)))

\* A parseFile that keeps the first row.
parseFile_KeepHeader(file) == AllRows(file)

\* parseFile: .slice(1) drops the first row, the header.
parseFile(file) == Tail(AllRows(file))

\* --------------------------------------------------------------- formats

\* A string literal as a text.
Chars(str) == [k \in 1..Len(str) |-> SubSeq(str, k, k)]

Digit == {"0", "1", "2", "3", "4", "5", "6", "7", "8", "9"}
Lower == {"a", "b", "c", "d", "e", "f", "g", "h", "i", "j", "k", "l", "m",
          "n", "o", "p", "q", "r", "s", "t", "u", "v", "w", "x", "y", "z"}
Upper == {"A", "B", "C", "D", "E", "F", "G", "H", "I", "J", "K", "L", "M",
          "N", "O", "P", "Q", "R", "S", "T", "U", "V", "W", "X", "Y", "Z"}
AlNum == Lower \cup Upper \cup Digit
\* \w of a regular expression, which decides \b.
WordChar == AlNum \cup {"_"}

\* Regular expressions as trees.
Chr(set) == [t |-> "chr", set |-> set]
Lit(c) == Chr({c})
Cat(parts) == [t |-> "cat", parts |-> parts]
Alt(parts) == [t |-> "alt", parts |-> parts]
\* r{min,max}; max = -1 is no upper limit.
Rep(r, min, max) == [t |-> "rep", r |-> r, min |-> min, max |-> max]
Opt(r) == Rep(r, 0, 1)
Times(r, n) == Rep(r, n, n)
WordBoundary == [t |-> "wordb"]

IsWordAt(s, p) == p >= 1 /\ p <= Len(s) /\ s[p] \in WordChar

\* The positions a match of re that starts at p can end at (a position is the
\* index of the next character to read).
RECURSIVE Ends(_, _, _)
RECURSIVE EndsCat(_, _, _, _)
RECURSIVE EndsRep(_, _, _, _)
Ends(re, s, p) ==
  CASE re.t = "chr" -> IF p <= Len(s) /\ s[p] \in re.set THEN {p + 1} ELSE {}
    [] re.t = "cat" -> EndsCat(re.parts, 1, s, p)
    [] re.t = "alt" -> UNION {Ends(re.parts[k], s, p) : k \in 1..Len(re.parts)}
    [] re.t = "rep" -> EndsRep(re, s, p, 0)
    [] re.t = "wordb" -> IF IsWordAt(s, p - 1) # IsWordAt(s, p) THEN {p} ELSE {}

\* parts[k], parts[k + 1], ... one after the other, from p.
EndsCat(parts, k, s, p) ==
  IF k > Len(parts) THEN {p}
  ELSE UNION {EndsCat(parts, k + 1, s, q) : q \in Ends(parts[k], s, p)}

\* re.r repeated, n times so far, from p.
EndsRep(re, s, p, n) ==
  (IF n >= re.min THEN {p} ELSE {})
    \cup (IF n = re.max THEN {}
          ELSE UNION {EndsRep(re, s, q, n + 1) : q \in Ends(re.r, s, p)})

\* RegExp.prototype.test of /^re$/.
TestWhole(re, s) == (Len(s) + 1) \in Ends(re, s, 1)

\* RegExp.prototype.test of /^re/.
TestPrefix(re, s) == Ends(re, s, 1) # {}

D(n) == Times(Chr(Digit), n)

FORMATS_ENTRY_TYPE == <<Chars("print"), Chars("online"), Chars("cd")>>
FORMATS_KEY_TYPE ==
  <<Chars("key"), Chars("matrix"), Chars("reference"), Chars("gallery"),
    Chars("checklist"), Chars("supplement"), Chars("collection")>>
FORMATS_COMPLETE == <<Chars("TRUE"), Chars("FALSE")>>

\* /^B\d+$/
FORMATS_ID == Cat(<<Lit("B"), Rep(Chr(Digit), 1, -1)>>)

UrlHostChar == AlNum \cup {"-", "@", ":", "%", ".", "_", "+", "~", "#", "="}
UrlTldChar == AlNum \cup {"(", ")"}
UrlPathChar ==
  AlNum \cup {"-", "(", ")", "@", ":", "%", "_", "+", ".", "~", "#", "?", "&", "/", "="}

\* /^https?:\/\/(www\.)?[-a-zA-Z0-9@:%._\+~#=]{1,256}\.[a-zA-Z0-9()]{1,6}\b([-a-zA-Z0-9()@:%_\+.~#?&//=]*)$/
FORMATS_URL ==
  Cat(<<Lit("h"), Lit("t"), Lit("t"), Lit("p"), Opt(Lit("s")), Lit(":"), Lit("/"), Lit("/"),
        Opt(Cat(<<Lit("w"), Lit("w"), Lit("w"), Lit(".")>>)),
        Rep(Chr(UrlHostChar), 1, 256), Lit("."), Rep(Chr(UrlTldChar), 1, 6),
        WordBoundary, Rep(Chr(UrlPathChar), 0, -1)>>)

\* \d{4}(-\d{2}(-\d{2})?)?
EdtfDay == Cat(<<D(4), Opt(Cat(<<Lit("-"), D(2), Opt(Cat(<<Lit("-"), D(2)>>))>>))>>)

\* (Z|[-+]\d{2}(:\d{2})?)
EdtfZone ==
  Alt(<<Lit("Z"), Cat(<<Chr({"-", "+"}), D(2), Opt(Cat(<<Lit(":"), D(2)>>))>>)>>)

\* \d{4}(-\d{2}(-\d{2}(T\d{2}:\d{2}:\d{2}(Z|[-+]\d{2}(:\d{2})?))?)?)?
EdtfDateTime ==
  Cat(<<D(4),
        Opt(Cat(<<Lit("-"), D(2),
                  Opt(Cat(<<Lit("-"), D(2),
                            Opt(Cat(<<Lit("T"), D(2), Lit(":"), D(2), Lit(":"), D(2),
                                      EdtfZone>>))>>))>>))>>)

\* /^(<date-time>|<day>\/<day>)$/
FORMATS_EDTF_0 == Alt(<<EdtfDateTime, Cat(<<EdtfDay, Lit("/"), EdtfDay>>)>>)

\* /^[0-9]{4}-[0-9]{3}[0-9X]$/
FORMATS_ISSN_L == Cat(<<D(4), Lit("-"), D(3), Chr(Digit \cup {"X"})>>)

\* /^(\d{13}|\d{9}[0-9X])$/
FORMATS_ISBN == Alt(<<D(13), Cat(<<D(9), Chr(Digit \cup {"X"})>>)>>)

\* /^10\./
FORMATS_DOI == Cat(<<Lit("1"), Lit("0"), Lit(".")>>)

\* /^Q[1-9][0-9]*$/
FORMATS_QID == Cat(<<Lit("Q"), Chr(Digit \ {"0"}), Rep(Chr(Digit), 0, -1)>>)

\* The identifiers of spdx-license-list the model knows.
SpdxLicenses == {Chars("MIT"), Chars("CC-BY-4.0")}

\* The tags ietf-language-tag-regex accepts, as far as the model knows.
IetfTags == {Chars("en"), Chars("fr"), Chars("nl")}

FORMATS_LICENSE(value) == value \in SpdxLicenses
FORMATS_LANGUAGE(value) == value \in IetfTags

\* ---------------------------------------------------------------- schema

\* A field rule: multiple is "true", "false" or the name of a CHECK function;
\* format is "none" or the name of a FORMATS member.
Rule(name, required, multiple, format) ==
  [name |-> name, required |-> required, multiple |-> multiple, format |-> format]

SCHEMA ==
  [catalog |-> <<
     Rule("id", TRUE, "false", "ID"),
     Rule("title", TRUE, "MULTILANG", "none"),
     Rule("author", FALSE, "true", "none"),
     Rule("url", FALSE, "true", "URL"),
     Rule("fulltext_url", FALSE, "true", "URL"),
     Rule("archive_url", FALSE, "true", "URL"),
     Rule("entry_type", TRUE, "false", "ENTRY_TYPE"),
     Rule("date", FALSE, "false", "EDTF_0"),
     Rule("publisher", FALSE, "true", "none"),
     Rule("series", FALSE, "false", "none"),
     Rule("ISSN", FALSE, "false", "ISSN_L"),
     Rule("ISBN", FALSE, "ISBN", "ISBN"),
     Rule("DOI", FALSE, "false", "DOI"),
     Rule("QID", FALSE, "false", "QID"),
     Rule("volume", FALSE, "false", "none"),
     Rule("issue", FALSE, "false", "none"),
     Rule("pages", FALSE, "false", "none"),
     Rule("edition", FALSE, "false", "none"),
     Rule("language", TRUE, "true", "LANGUAGE"),
     Rule("license", FALSE, "true", "LICENSE"),
     Rule("key_type", TRUE, "true", "KEY_TYPE"),
     Rule("taxon", TRUE, "true", "none"),
     Rule("scope", FALSE, "true", "none"),
     Rule("region", TRUE, "true", "none"),
     Rule("complete", FALSE, "false", "COMPLETE"),
     Rule("target_taxa", FALSE, "true", "none"),
     Rule("part_of", FALSE, "true", "ID")>>,
   authors |-> <<
     Rule("name", TRUE, "false", "none"),
     Rule("qid", FALSE, "false", "QID"),
     Rule("main_full_name", FALSE, "false", "none"),
     Rule("full_names", FALSE, "true", "none")>>,
   publishers |-> <<
     Rule("name", TRUE, "false", "none"),
     Rule("qid", FALSE, "false", "QID"),
     Rule("full_name", FALSE, "false", "none"),
     Rule("long_name", FALSE, "true", "none")>>,
   places |-> <<
     Rule("name", TRUE, "false", "none"),
     Rule("qid", FALSE, "false", "QID"),
     Rule("display_name", FALSE, "false", "none")>>]

\* The fields `for (const field in SCHEMA[sheet])` visits: those of the sheet,
\* in the order they are declared, and none when SCHEMA[sheet] is undefined
\* (a for-in loop over undefined has no iterations and does not throw).
SchemaFields(sheet) == IF sheet \in DOMAIN SCHEMA THEN SCHEMA[sheet] ELSE <<>>

FieldNames(sheet) == {SchemaFields(sheet)[k].name : k \in 1..Len(SchemaFields(sheet))}

\* SCHEMA[sheet][field]
RuleOf(sheet, field) ==
  LET fields == SchemaFields(sheet)
  IN  fields[CHOOSE k \in 1..Len(fields) : fields[k].name = field]

\* ---------------------------------------------------------------- values

Undef == [tag |-> "undef", s |-> <<>>, a |-> <<>>]
Str(s) == [tag |-> "str", s |-> s, a |-> <<>>]
Arr(a) == [tag |-> "arr", s |-> <<>>, a |-> a]

\* value.toString() of a string or an array (an array joins with a comma).
toString(v) == IF v.tag = "arr" THEN Join(v.a, <<COMMA>>) ELSE v.s

\* value.length of a string or an array.
Length(v) == IF v.tag = "arr" THEN Len(v.a) ELSE Len(v.s)

\* value.includes('; '): a substring of a string, an element of an array.
IncludesSep(v) ==
  IF v.tag = "arr"
    THEN \E k \in 1..Len(v.a) : v.a[k] = SEP
    ELSE Includes(v.s, SEP)

\* ----------------------------------------------------------------- CHECK

\* CHECK.MULTILANG: "true", "false", or "throw" when entry.language is undefined.
CHECK_MULTILANG(entry) ==
  IF "language" \notin DOMAIN entry \/ entry["language"].tag = "undef" THEN "throw"
  ELSE IF Length(entry["language"]) > 1 THEN "true" ELSE "false"

\* CHECK.ISBN: with two or more values it reads entry.ISBN.length[0].length;
\* entry.ISBN.length is a number, its [0] is undefined, and reading .length of
\* undefined throws a TypeError.
CHECK_ISBN(entry) ==
  IF "ISBN" \notin DOMAIN entry \/ entry["ISBN"].tag = "undef" THEN "throw"
  ELSE IF Length(entry["ISBN"]) < 2 THEN "false"
  ELSE "throw"

\* ------------------------------------------------------------- validation

\* The value of validateValue's checks: TRUE when it throws.
validateValue(sheet, field, value) ==
  LET format == RuleOf(sheet, field).format
  IN  CASE format = "none" -> FALSE
        [] format = "ENTRY_TYPE" ->
             ~ \E k \in 1..Len(FORMATS_ENTRY_TYPE) : FORMATS_ENTRY_TYPE[k] = value
        [] format = "KEY_TYPE" ->
             ~ \E k \in 1..Len(FORMATS_KEY_TYPE) : FORMATS_KEY_TYPE[k] = value
        [] format = "COMPLETE" ->
             ~ \E k \in 1..Len(FORMATS_COMPLETE) : FORMATS_COMPLETE[k] = value
        [] format = "ID" -> ~TestWhole(FORMATS_ID, value)
        [] format = "URL" -> ~TestWhole(FORMATS_URL, value)
        [] format = "EDTF_0" -> ~TestWhole(FORMATS_EDTF_0, value)
        [] format = "ISSN_L" -> ~TestWhole(FORMATS_ISSN_L, value)
        [] format = "ISBN" -> ~TestWhole(FORMATS_ISBN, value)
        [] format = "DOI" -> ~TestPrefix(FORMATS_DOI, value)
        [] format = "QID" -> ~TestWhole(FORMATS_QID, value)
        [] format = "LICENSE" -> ~FORMATS_LICENSE(value)
        [] format = "LANGUAGE" -> ~FORMATS_LANGUAGE(value)

\* What validateField throws: kind "none" when it returns normally.  A format
\* error carries the values that failed, in order (their messages are joined
\* with '; ' by the code).
NoError == [kind |-> "none", values |-> <<>>]
Error(kind, values) == [kind |-> kind, values |-> values]

REQUIRED == "Value(s) required but missing"
MULTIPLE == "Multiple values but only one expected"
FORMAT == "The value does not conform"
TYPE_ERROR == "TypeError"

\* The multiple of the rule, resolved against the entry.
ResolveMultiple(entry, rule) ==
  CASE rule.multiple = "MULTILANG" -> CHECK_MULTILANG(entry)
    [] rule.multiple = "ISBN" -> CHECK_ISBN(entry)
    [] OTHER -> rule.multiple

\* A cardinality test that looks at split values only.
CardinalityFails_SplitOnly(multiple, value) ==
  multiple = "false" /\ value.tag = "arr" /\ IncludesSep(value)

\* The cardinality test of validateField, for a resolved multiple.
CardinalityFails(multiple, value) == multiple = "false" /\ IncludesSep(value)

\* The format checks of validateField: an array is checked value by value and
\* the values that fail are collected in order.
FormatError(sheet, field, value) ==
  IF value.tag = "arr"
    THEN LET fails(v) == validateValue(sheet, field, v)
         IN  The({IF errors # <<>> THEN Error(FORMAT, errors) ELSE NoError
                    : errors \in {SelectSeq(value.a, fails)}})
    ELSE IF validateValue(sheet, field, value.s)
      THEN Error(FORMAT, <<value.s>>)
      ELSE NoError

\* validateField on the rule and the value of the field.
FieldCheck(entry, sheet, field, rule, value) ==
  IF value.tag = "undef" THEN Error(TYPE_ERROR, <<>>)
  ELSE IF rule.required /\ toString(value) = <<>> THEN Error(REQUIRED, <<>>)
  ELSE IF toString(value) = <<>> THEN NoError
  ELSE The({IF multiple = "throw" THEN Error(TYPE_ERROR, <<>>)
            ELSE IF CardinalityFails(multiple, value) THEN Error(MULTIPLE, <<>>)
            ELSE FormatError(sheet, field, value)
              : multiple \in {ResolveMultiple(entry, rule)}})

validateField(entry, sheet, field) ==
  The({FieldCheck(entry, sheet, field, rule, value)
         : rule \in {RuleOf(sheet, field)}, value \in {entry[field]}})

\* A field's error as validateEntry records it.
FieldError(entry, sheet, field) ==
  The({[field |-> field, kind |-> error.kind, values |-> error.values]
         : error \in {validateField(entry, sheet, field)}})

Failed(e) == e.kind # "none"

\* validateEntry: the errors it collects, one per failing field of the entry
\* in the order of the fields (it joins and throws them when there are any).
\* The entry has the fields of the schema, inserted in the schema's order.
validateEntry(entry, sheet) ==
  SelectSeq([k \in 1..Len(SchemaFields(sheet)) |->
               FieldError(entry, sheet, SchemaFields(sheet)[k].name)],
            Failed)

\* The value parseEntry stores for a column: row.shift() is undefined once the
\* row is used up; a truthy multiple (true or a function) splits the value.
ColumnValue(row, k, rule) ==
  LET value == IF k <= Len(row) THEN Str(row[k]) ELSE Undef
  IN  IF rule.multiple # "false" /\ value.tag = "str"
        THEN Arr(Split(value.s, SEP))
        ELSE value

\* parseEntry throws a TypeError when it calls split on undefined.
parseEntryThrows(row, sheet) ==
  \E k \in 1..Len(SchemaFields(sheet)) :
    SchemaFields(sheet)[k].multiple # "false" /\ k > Len(row)

\* parseEntry, when it does not throw: the entry, by field name.
parseEntry(row, sheet) ==
  LET fields == SchemaFields(sheet)
  IN  [field \in FieldNames(sheet) |->
         LET k == CHOOSE j \in 1..Len(fields) : fields[j].name = field
         IN  ColumnValue(row, k, fields[k])]

\* ---------------------------------------------------------------- inputs

\* A cell of an input line: its text s, written bare or (q) wrapped in quotes
\* with every quote of s doubled.
Cell(s, q) == [s |-> s, q |-> q]
Raw(str) == Cell(Chars(str), FALSE)
Quoted(str) == Cell(Chars(str), TRUE)

RECURSIVE Escape(_)
Escape(s) ==
  IF s = <<>> THEN <<>>
  ELSE (IF Head(s) = QUOTE THEN <<QUOTE, QUOTE>> ELSE <<Head(s)>>) \o Escape(Tail(s))

WriteCell(c) == IF c.q THEN <<QUOTE>> \o Escape(c.s) \o <<QUOTE>> ELSE c.s

WriteLine(line) == Join([k \in 1..Len(line) |-> WriteCell(line[k])], <<COMMA>>)

WriteFile(lines) == Join([k \in 1..Len(lines) |-> WriteLine(lines[k])], <<NL>>)

\* The header line of a sheet: its field names.
HeaderLine(sheet) ==
  [k \in 1..Len(SchemaFields(sheet)) |-> Raw(SchemaFields(sheet)[k].name)]

\* A catalog line: the values of a valid record, some replaced, cut to n columns.
CatalogBase ==
  [id |-> "B1", title |-> "Title", author |-> "Smith", url |-> "http://example.com",
   entry_type |-> "print", language |-> "en", key_type |-> "key",
   taxon |-> "Mammalia", region |-> "US", part_of |-> "B2"]

CatalogLine(over, n) ==
  [k \in 1..n |->
     LET name == SCHEMA.catalog[k].name
     IN  Raw(IF name \in DOMAIN over THEN over[name]
             ELSE IF name \in DOMAIN CatalogBase THEN CatalogBase[name]
             ELSE "")]

CatalogWidth == Len(SCHEMA.catalog)
ISBN10 == "0123456789"
ISBN13 == "9780123456789"

CatalogValid == CatalogLine([id |-> "B1"], CatalogWidth)
CatalogBook == CatalogLine([id |-> "B2", entry_type |-> "book"], CatalogWidth)

CatalogLines ==
  { CatalogValid,
    CatalogBook,
    \* a title of two values, with one language and with two
    CatalogLine([id |-> "B3", title |-> "A; B"], CatalogWidth),
    CatalogLine([id |-> "B4", title |-> "A; B", language |-> "en; fr"], CatalogWidth),
    \* ISBN pairs
    CatalogLine([id |-> "B5", ISBN |-> ISBN10 \o "; " \o ISBN13], CatalogWidth),
    CatalogLine([id |-> "B6", ISBN |-> ISBN13 \o "; " \o ISBN10], CatalogWidth),
    CatalogLine([id |-> "B7", ISBN |-> ISBN10 \o "; " \o ISBN10], CatalogWidth),
    \* single-valued fields holding the separator
    CatalogLine([id |-> "B8; B9", series |-> "a; b", QID |-> "Q1; Q2",
                 entry_type |-> "print; cd"], CatalogWidth),
    \* a missing id and other failing fields
    CatalogLine([id |-> "", entry_type |-> "book", date |-> "2020-1",
                 language |-> "en; xx"], CatalogWidth),
    \* an empty last column
    CatalogLine([id |-> "B10", part_of |-> ""], CatalogWidth),
    \* a short row
    CatalogLine([id |-> "B11"], 7) }

AuthorsLines ==
  { <<Raw("Bob"), Raw("Q1"), Raw("Robert"), Raw("Bob B; Bobby")>>,
    <<Raw("A; B"), Raw("Q1; Q2"), Raw("x; y"), Raw("")>>,
    <<Raw(""), Raw("Q0"), Raw(""), Raw("x")>>,
    <<Raw("Bob")>>,
    <<Quoted("Smith, \"Bob\""), Raw(""), Quoted("\""), Quoted("a,b")>> }

PublishersLines ==
  { <<Raw("Brill"), Raw("Q1"), Raw("Brill NV"), Raw("Koninklijke Brill")>>,
    <<Raw("A; B"), Raw("Q01"), Raw(""), Raw("")>>,
    <<Raw("Brill"), Raw("Q1")>>,
    <<Quoted("\"\""), Raw("Q1"), Quoted("\"a"), Quoted("a\"")>> }

PlacesLines ==
  { <<Raw("Utrecht"), Raw("Q803"), Raw("Utrecht NL")>>,
    <<Raw("A; B"), Raw("Q1; Q2"), Raw("c; d")>>,
    <<Raw(""), Raw("Q0"), Raw("")>>,
    <<Raw("Utrecht")>>,
    <<Raw("A; B")>>,
    <<Raw(""), Raw(""), Raw("")>>,
    <<Quoted(""), Quoted("Q1"), Quoted("a\"\"b,")>> }

KnownSheets == {"catalog", "authors", "publishers", "places"}

\* The sheet names given to validate: the four of SCHEMA and one that is not.
SheetNames == KnownSheets \cup {"taxa"}

\* The lines a file of the sheet is written from.
Lines(sheet) ==
  CASE sheet = "catalog" -> CatalogLines
    [] sheet = "authors" -> AuthorsLines
    [] sheet = "publishers" -> PublishersLines
    [] OTHER -> PlacesLines

\* The first line of a file: the header, or a data line.
FirstLines(sheet) ==
  CASE sheet = "catalog" -> {HeaderLine(sheet), CatalogBook}
    [] sheet = "authors" -> {HeaderLine(sheet), <<Raw(""), Raw("Q0"), Raw(""), Raw("x")>>}
    [] sheet = "publishers" -> {HeaderLine(sheet), <<Raw("A; B"), Raw("Q01"), Raw(""), Raw("")>>}
    [] OTHER -> {HeaderLine("places"), <<Raw(""), Raw("Q0"), Raw("")>>}

\* The files have at most MaxLines lines.
MaxLines == 3

Files(sheet) ==
  {<<>>} \cup
  UNION { { <<first>> \o rest : first \in FirstLines(sheet),
                                 rest \in [1..n -> Lines(sheet)] }
          : n \in 0..(MaxLines - 1) }

\* ----------------------------------------------------------------- state

VARIABLES
  written,  \* the lines the file was written from
  file,     \* validate's file: the text
  sheet,    \* validate's sheet
  pc,       \* "start", "loop" (before entry i) or "done"
  entries,  \* parseFile(file)
  i,        \* the index of the entry the loop of validate is at
  errors,   \* validate's errors
  outcome   \* "running", "returned" or "thrown"

vars == <<written, file, sheet, pc, entries, i, errors, outcome>>

Init ==
  /\ sheet \in SheetNames
  /\ written \in Files(sheet)
  /\ \E trailing \in BOOLEAN :
       file = WriteFile(written) \o (IF trailing THEN <<NL>> ELSE <<>>)
  /\ pc = "start"
  /\ entries = <<>>
  /\ i = 1
  /\ errors = <<>>
  /\ outcome = "running"

\* entry[0], the label of a group.
Label(row) == IF row # <<>> THEN Str(row[1]) ELSE Undef

\* validateEntry(parseEntry(entry.slice(), sheet), sheet) for one row: whether
\* it throws, whether parseEntry returned, and validateEntry's errors.
RowOutcome(row, sheet_) ==
  IF parseEntryThrows(row, sheet_)
    THEN [threw |-> TRUE, mapped |-> FALSE, errors |-> <<>>]
    ELSE The({[threw |-> found # <<>>, mapped |-> TRUE, errors |-> found]
                : found \in {The({validateEntry(entry, sheet_)
                                    : entry \in {parseEntry(row, sheet_)}})}})

\* A push that puts the group in front of the earlier ones.
PushGroup_Unshift(errs, k, row, out) ==
  <<[row |-> k, label |-> Label(row), mapped |-> out.mapped,
     errors |-> out.errors]>> \o errs

\* errors.push(...): the group of row k, labelled entry[0]; row is kept to
\* tell which row a group came from.
PushGroup(errs, k, row, out) ==
  Append(errs, [row |-> k, label |-> Label(row), mapped |-> out.mapped,
                errors |-> out.errors])

\* const entries = parseFile(file)
ParseFile ==
  /\ pc = "start"
  /\ entries' = parseFile(file)
  /\ pc' = "loop"
  /\ UNCHANGED <<written, file, sheet, i, errors, outcome>>

\* One iteration of the loop whose try block does not throw.
RowPasses ==
  /\ pc = "loop"
  /\ i <= Len(entries)
  /\ \E out \in {RowOutcome(entries[i], sheet)} : ~out.threw
  /\ i' = i + 1
  /\ UNCHANGED <<written, file, sheet, pc, entries, errors, outcome>>

\* One iteration of the loop whose try block throws: the catch pushes a group.
RowFails ==
  /\ pc = "loop"
  /\ i <= Len(entries)
  /\ \E out \in {RowOutcome(entries[i], sheet)} :
       /\ out.threw
       /\ errors' = PushGroup(errors, i, entries[i], out)
  /\ i' = i + 1
  /\ UNCHANGED <<written, file, sheet, pc, entries, outcome>>

\* if (errors.length) throw new Error(...)
Throw ==
  /\ pc = "loop"
  /\ i > Len(entries)
  /\ errors # <<>>
  /\ outcome' = "thrown"
  /\ pc' = "done"
  /\ UNCHANGED <<written, file, sheet, entries, i, errors>>

\* validate returns undefined.
Return ==
  /\ pc = "loop"
  /\ i > Len(entries)
  /\ errors = <<>>
  /\ outcome' = "returned"
  /\ pc' = "done"
  /\ UNCHANGED <<written, file, sheet, entries, i, errors>>

Next == ParseFile \/ RowPasses \/ RowFails \/ Throw \/ Return

Spec == Init /\ [][Next]_vars

\* ---------------------------------------------------------------- claims

Done == pc = "done"

\* The rows the input text holds: none when it is empty after trimming.
InputRows == IF Trim(file) = <<>> THEN <<>> ELSE AllRows(file)

\* The rows the loop of validate has finished with.
Checked == 1..(i - 1)

\* The groups pushed for row k.
GroupsOf(k) == {j \in 1..Len(errors) : errors[j].row = k}

\* Row k has a group that reports the field with an error of the kind.
Reports(k, field, kind) ==
  \E j \in GroupsOf(k) : \E n \in 1..Len(errors[j].errors) :
    errors[j].errors[n].field = field /\ errors[j].errors[n].kind = kind

\* Row k has a group that reports the field.
ReportsField(k, field) ==
  \E j \in GroupsOf(k) : \E n \in 1..Len(errors[j].errors) :
    errors[j].errors[n].field = field

\* The column of a field of the sheet.
ColumnOf(sheet_, field) ==
  CHOOSE k \in 1..Len(SchemaFields(sheet_)) : SchemaFields(sheet_)[k].name = field

\* parseEntry returns for the row and validateField throws for the field.
FieldFails(row, sheet_, field) ==
  /\ ~parseEntryThrows(row, sheet_)
  /\ validateField(parseEntry(row, sheet_), sheet_, field).kind # "none"

\* C1: validate never fails fast: every failing field of every record it
\* validates has its own entry in the record's group, every record is checked,
\* and validate throws, once and after the last record, exactly when at least
\* one field of at least one record failed a check; otherwise it returns.
C1_NoFailFast ==
  /\ \A k \in Checked : \A field \in FieldNames(sheet) :
       FieldFails(entries[k], sheet, field) => ReportsField(k, field)
  /\ outcome # "running" => i = Len(entries) + 1
  /\ outcome = "thrown" =>
       \E k \in 1..Len(entries) : \E field \in FieldNames(sheet) :
         FieldFails(entries[k], sheet, field)
  /\ outcome = "returned" =>
       \A k \in 1..Len(entries) : \A field \in FieldNames(sheet) :
         ~FieldFails(entries[k], sheet, field)

\* C2, as claimed: the checks are applied to every row of the input text, the
\* first included; the report is empty exactly when no row of the input makes
\* the mapping and validation of a record throw.
C2_EveryRowChecked ==
  Done => (errors = <<>> <=>
             \A r \in 1..Len(InputRows) : ~RowOutcome(InputRows[r], sheet).threw)

\* C2, amended: the first row of the input text is skipped as the header and
\* the checks are applied to every later row; the report is empty exactly when
\* no row after the first makes the mapping and validation of a record throw.
C2_EveryRowButTheFirstChecked ==
  Done => (errors = <<>> <=>
             \A r \in 2..Len(InputRows) : ~RowOutcome(InputRows[r], sheet).threw)

\* C2, witness: a run that ends with an empty report on a text whose first row
\* fails the checks and which has later rows.
C2_Witness ==
  /\ Done
  /\ sheet \in KnownSheets
  /\ Len(InputRows) >= 2
  /\ RowOutcome(InputRows[1], sheet).threw
  /\ errors = <<>>
  /\ outcome = "returned"

\* C3: with a sheet name that is not in SCHEMA, validate ends with an error
\* and no row is mapped or validated before it does.
C3_UnknownSheetThrows ==
  sheet \notin KnownSheets => (i = 1 /\ outcome # "returned")

\* C4: for a field whose multiple is a function (title, ISBN of the catalog),
\* whenever the function resolves to false on the record and the field's text
\* in the row contains '; ', the record's group reports 'Multiple values but
\* only one expected' for the field.
C4_ComputedCardinality ==
  \A k \in Checked : \A n \in 1..Len(SchemaFields(sheet)) :
    LET rule == SchemaFields(sheet)[n]
        row == entries[k]
    IN  ( /\ rule.multiple \in {"MULTILANG", "ISBN"}
          /\ ~parseEntryThrows(row, sheet)
          /\ ResolveMultiple(parseEntry(row, sheet), rule) = "false"
          /\ Includes(row[n], SEP) )
        => Reports(k, rule.name, MULTIPLE)

\* The text is two values, each in the ISBN format.
IsbnPair(s) ==
  /\ Len(Split(s, SEP)) = 2
  /\ \A n \in 1..2 : TestWhole(FORMATS_ISBN, Split(s, SEP)[n])

\* C5: a catalog record whose ISBN field holds two values in the ISBN format
\* has no violation on ISBN when one has length 10 and the other 13, and has
\* one when both have the same length; no other kind of error is raised.
C5_IsbnPairing ==
  \A k \in Checked :
    LET row == entries[k]
        n == ColumnOf("catalog", "ISBN")
    IN  ( /\ sheet = "catalog"
          /\ ~parseEntryThrows(row, sheet)
          /\ IsbnPair(row[n]) )
        => /\ ~Reports(k, "ISBN", TYPE_ERROR)
           /\ ReportsField(k, "ISBN")
                <=> Len(Split(row[n], SEP)[1]) = Len(Split(row[n], SEP)[2])

\* C6: for every field whose rule has multiple: false and every record whose
\* value for the field contains '; ', the record's group reports 'Multiple
\* values but only one expected' for the field, whatever the field's format
\* and whether or not it is required.
C6_StaticSingleValued ==
  \A k \in Checked : \A n \in 1..Len(SchemaFields(sheet)) :
    ( /\ SchemaFields(sheet)[n].multiple = "false"
      /\ ~parseEntryThrows(entries[k], sheet)
      /\ n <= Len(entries[k])
      /\ Includes(entries[k][n], SEP) )
    => Reports(k, SchemaFields(sheet)[n].name, MULTIPLE)

\* C6, witness: a finished run with a record that holds '; ' in a required
\* field without a format (name) and in an optional field with one (qid),
\* both reported.
C6_Witness ==
  /\ Done
  /\ sheet = "places"
  /\ \E k \in Checked :
       /\ Includes(entries[k][1], SEP)
       /\ Len(entries[k]) >= 2
       /\ Includes(entries[k][2], SEP)
       /\ Reports(k, "name", MULTIPLE)
       /\ Reports(k, "qid", MULTIPLE)

\* C7: a cell of a data line that was written as a quoted field, its text
\* without newlines, is tokenized to exactly its text.
C7_QuotedRoundTrip ==
  pc # "start" =>
    \A r \in 2..Len(written) : \A c \in 1..Len(written[r]) :
      (written[r][c].q /\ ~Includes(written[r][c].s, <<NL>>))
      => /\ r - 1 <= Len(entries)
         /\ c <= Len(entries[r - 1])
         /\ entries[r - 1][c] = written[r][c].s

\* C8: the groups of the report are in the order of the rows they come from,
\* every checked row that fails has its group, and each group carries the
\* first field of its own row as its label.
C8_GroupsInRowOrder ==
  /\ \A j, k \in 1..Len(errors) : j < k => errors[j].row < errors[k].row
  /\ \A k \in Checked : RowOutcome(entries[k], sheet).threw => GroupsOf(k) # {}
  /\ \A j \in 1..Len(errors) :
       /\ errors[j].row \in Checked
       /\ errors[j].label.tag = "str"
       /\ errors[j].label.s = entries[errors[j].row][1]

\* C8, witness: a finished run whose report has the groups of two rows with
\* different labels.
C8_Witness ==
  /\ Done
  /\ Len(errors) >= 2
  /\ errors[1].label # errors[2].label

\* C9: a data line written from bare cells is tokenized to one field per cell,
\* in order, empty cells included, also on the last line of the text.
C9_OneFieldPerColumn ==
  pc # "start" =>
    \A r \in 2..Len(written) :
      (\A c \in 1..Len(written[r]) : ~written[r][c].q)
      => /\ r - 1 <= Len(entries)
         /\ entries[r - 1] = [c \in 1..Len(written[r]) |-> written[r][c].s]

\* The row with its missing trailing fields as empty strings.
Padded(row, sheet_) ==
  [n \in 1..Len(SchemaFields(sheet_)) |-> IF n <= Len(row) THEN row[n] ELSE <<>>]

\* C10: a row with fewer fields than the schema is mapped and validated as
\* the row with its missing trailing fields as empty strings: it is reported
\* exactly when that row is, with the same violations.
C10_ShortRowAsEmptyFields ==
  \A k \in Checked :
    Len(entries[k]) < Len(SchemaFields(sheet))
    => LET padded == RowOutcome(Padded(entries[k], sheet), sheet)
       IN  /\ GroupsOf(k) # {} <=> padded.threw
           /\ \A j \in GroupsOf(k) :
                errors[j].mapped /\ errors[j].errors = padded.errors

====
